---- MODULE Spec2Model ----
(***************************************************************************)
(* Model of terragrunt-atlantis-config's locals resolution                 *)
(* (cmd/parse_locals.go: resolveLocals, mergeResolvedLocals, parseLocals)  *)
(* and of the prior-output reader (readOldConfig).                         *)
(*                                                                         *)
(* Go values are encoded as follows.                                       *)
(*   string      a TLA+ string, "" being Go's zero value                   *)
(*   *bool       <<>> for nil, <<b>> for a pointer to b                    *)
(*   []string    <<>> for a nil slice, <<s>> for a non-nil slice whose     *)
(*               elements are the sequence s (the requirement lists, on    *)
(*               which the code tests nil); ExtraAtlantisDependencies is   *)
(*               only ever appended to and is kept as a plain sequence     *)
(*   cty.Value   <<>> for cty.NilVal, <<m>> for an object whose value map  *)
(*               is the function m                                         *)
(***************************************************************************)
EXTENDS Integers, Sequences, FiniteSets, TLC

\* Longest list value a locals block declares.
MaxLen == 2
\* Most include blocks one configuration file declares.
MaxIncludes == 2

Nil == <<>>
Some(x) == <<x>>

SeqsUpTo(S, n) == UNION {[1..k -> S] : k \in 0..n}

(***************************************************************************)
(* The locals a file can declare.                                          *)
(***************************************************************************)
StringKeys == {"atlantis_branch", "atlantis_workflow", "atlantis_terraform_version"}
BoolKeys == {"atlantis_delete_source_branch_on_merge", "atlantis_autoplan",
             "atlantis_repo_locking", "atlantis_skip", "atlantis_project"}
RequirementKeys == {"atlantis_plan_requirements", "atlantis_apply_requirements",
                    "atlantis_import_requirements", "atlantis_immport_requirements"}
DependencyKeys == {"extra_atlantis_dependencies"}
OtherKeys == {"region"}
AllKeys == StringKeys \cup BoolKeys \cup RequirementKeys \cup DependencyKeys \cup OtherKeys

StringValues == {"", "a", "b"}
RequirementNames == {"a", "b"}
PathNames == {"a", "b\\c"}

ValuesOf(k) ==
    IF k \in StringKeys THEN StringValues
    ELSE IF k \in BoolKeys THEN BOOLEAN
    ELSE IF k \in RequirementKeys THEN SeqsUpTo(RequirementNames, MaxLen)
    ELSE IF k \in DependencyKeys THEN SeqsUpTo(PathNames, MaxLen)
    ELSE {"x"}

\* The value maps declaring exactly one key.
SingleKeyMaps == UNION {{[x \in {k} |-> v] : v \in ValuesOf(k)} : k \in AllKeys}
\* The value maps declaring exactly two keys.
TwoKeyMaps ==
    UNION {{[x \in {k1, k2} |-> IF x = k1 THEN v1 ELSE v2] :
                v1 \in ValuesOf(k1), v2 \in ValuesOf(k2)} :
           <<k1, k2>> \in {p \in AllKeys \X AllKeys : p[1] # p[2]}}

NilVal == Nil
\* What DecodeBaseBlocks hands to resolveLocals: no locals block, or an object.
ParentScopes == {NilVal} \cup {Some(m) : m \in SingleKeyMaps}
ChildScopes == ParentScopes \cup {Some(m) : m \in TwoKeyMaps}

(***************************************************************************)
(* cty conversions and filepath.ToSlash                                    *)
(***************************************************************************)
AsString(v) == v
True(v) == v = TRUE
\* filepath.Separator of the build; "/" everywhere but on Windows.
Separator == "/"
ToSlash(path) ==
    IF Separator = "/" THEN path
    ELSE IF path = "b\\c" THEN "b/c" ELSE path

ElementStrings(list) == [i \in 1..Len(list) |-> AsString(list[i])]
ElementPaths(list) == [i \in 1..Len(list) |-> ToSlash(AsString(list[i]))]

(***************************************************************************)
(* ResolvedLocals and resolveLocals                                        *)
(***************************************************************************)
EmptyLocals ==
    [BranchProject |-> "",
     DeleteSourceBranchOnMergeProject |-> Nil,
     AtlantisWorkflow |-> "",
     PlanRequirements |-> Nil,
     ApplyRequirements |-> Nil,
     ImportRequirements |-> Nil,
     ExtraAtlantisDependencies |-> <<>>,
     AutoPlan |-> Nil,
     RepoLocking |-> Nil,
     Skip |-> Nil,
     TerraformVersion |-> "",
     markedProject |-> Nil]

Has(rawLocals, key) == key \in DOMAIN rawLocals

StringLocal(rawLocals, key) ==
    IF Has(rawLocals, key) THEN AsString(rawLocals[key]) ELSE ""

BoolLocal(rawLocals, key) ==
    IF Has(rawLocals, key) THEN Some(True(rawLocals[key])) ELSE Nil

RequirementsLocal(rawLocals, key) ==
    IF Has(rawLocals, key) THEN Some(ElementStrings(rawLocals[key])) ELSE Nil

DependenciesLocal(rawLocals, key) ==
    IF Has(rawLocals, key) THEN ElementPaths(rawLocals[key]) ELSE <<>>

resolveLocals(localsAsCty) ==
    IF localsAsCty = NilVal THEN EmptyLocals
    ELSE LET rawLocals == localsAsCty[1] IN
        [BranchProject |-> StringLocal(rawLocals, "atlantis_branch"),
         DeleteSourceBranchOnMergeProject |->
             BoolLocal(rawLocals, "atlantis_delete_source_branch_on_merge"),
         AtlantisWorkflow |-> StringLocal(rawLocals, "atlantis_workflow"),
         TerraformVersion |-> StringLocal(rawLocals, "atlantis_terraform_version"),
         AutoPlan |-> BoolLocal(rawLocals, "atlantis_autoplan"),
         RepoLocking |-> BoolLocal(rawLocals, "atlantis_repo_locking"),
         Skip |-> BoolLocal(rawLocals, "atlantis_skip"),
         PlanRequirements |-> RequirementsLocal(rawLocals, "atlantis_plan_requirements"),
         ApplyRequirements |-> RequirementsLocal(rawLocals, "atlantis_apply_requirements"),
         ImportRequirements |-> RequirementsLocal(rawLocals, "atlantis_immport_requirements"),
         markedProject |-> BoolLocal(rawLocals, "atlantis_project"),
         ExtraAtlantisDependencies |->
             DependenciesLocal(rawLocals, "extra_atlantis_dependencies")]

(***************************************************************************)
(* mergeResolvedLocals                                                     *)
(***************************************************************************)
SliceLen(slice) == IF slice = Nil THEN 0 ELSE Len(slice[1])

MergeString(parentValue, childValue) ==
    IF childValue # "" THEN childValue ELSE parentValue

MergePointer(parentValue, childValue) ==
    IF childValue # Nil THEN childValue ELSE parentValue

\* A merge that takes the child's list only when it has elements.
MergeRequirementsNonEmpty(parentValue, childValue) ==
    IF SliceLen(childValue) > 0 THEN childValue ELSE parentValue

MergeRequirements(parentValue, childValue) ==
    IF childValue # Nil \/ SliceLen(childValue) > 0 THEN childValue ELSE parentValue

\* An append with its operands exchanged.
PrependDependencies(parentValue, childValue) == childValue \o parentValue

AppendDependencies(parentValue, childValue) == parentValue \o childValue

mergeResolvedLocals(parent, child) ==
    [BranchProject |-> MergeString(parent.BranchProject, child.BranchProject),
     DeleteSourceBranchOnMergeProject |->
         MergePointer(parent.DeleteSourceBranchOnMergeProject,
                      child.DeleteSourceBranchOnMergeProject),
     AtlantisWorkflow |-> MergeString(parent.AtlantisWorkflow, child.AtlantisWorkflow),
     TerraformVersion |-> MergeString(parent.TerraformVersion, child.TerraformVersion),
     AutoPlan |-> MergePointer(parent.AutoPlan, child.AutoPlan),
     RepoLocking |-> MergePointer(parent.RepoLocking, child.RepoLocking),
     Skip |-> MergePointer(parent.Skip, child.Skip),
     markedProject |-> MergePointer(parent.markedProject, child.markedProject),
     PlanRequirements |->
         MergeRequirements(parent.PlanRequirements, child.PlanRequirements),
     ApplyRequirements |->
         MergeRequirements(parent.ApplyRequirements, child.ApplyRequirements),
     ImportRequirements |->
         MergeRequirements(parent.ImportRequirements, child.ImportRequirements),
     ExtraAtlantisDependencies |->
         AppendDependencies(parent.ExtraAtlantisDependencies,
                            child.ExtraAtlantisDependencies)]

VARIABLES
    \* resolveLocals and mergeResolvedLocals applied to one parent and one child
    parentCty, childCty, parentLocals, childLocals, mergedLocals,
    \* parseLocals: the files, the call stack, the value returned to the caller
    \* of the top-level call, the number of files read, what each recursive call
    \* returned (in the order of the returns) and the merges of the last step;
    \* included holds, for each file loaded as an include, the error that gave
    fs, included, stack, result, loads, returned, merges,
    \* readOldConfig: the file at outputPath and what the function returned
    outputFile, oldConfig

localsVars == <<parentCty, childCty, parentLocals, childLocals, mergedLocals>>
parseVars == <<fs, included, stack, result, loads, returned, merges>>
oldVars == <<outputFile, oldConfig>>
vars == <<localsVars, parseVars, oldVars>>

LocalsIdle ==
    /\ parentCty = Nil
    /\ childCty = Nil
    /\ parentLocals = Nil
    /\ childLocals = Nil
    /\ mergedLocals = Nil

ParseIdle ==
    /\ fs = <<>>
    /\ included = <<>>
    /\ stack = <<>>
    /\ result = Nil
    /\ loads = 0
    /\ returned = <<>>
    /\ merges = <<>>

OldIdle ==
    /\ outputFile = Nil
    /\ oldConfig = Nil

(***************************************************************************)
(* SpecLocals: resolveLocals on a parent scope and a child scope, then     *)
(* mergeResolvedLocals of the two records.                                 *)
(***************************************************************************)
InitLocals ==
    /\ parentCty \in ParentScopes
    /\ childCty \in ChildScopes
    /\ parentLocals = Nil
    /\ childLocals = Nil
    /\ mergedLocals = Nil
    /\ ParseIdle
    /\ OldIdle

ResolveParent ==
    /\ parentLocals = Nil
    /\ parentLocals' = Some(resolveLocals(parentCty))
    /\ UNCHANGED <<parentCty, childCty, childLocals, mergedLocals, parseVars, oldVars>>

ResolveChild ==
    /\ childLocals = Nil
    /\ childLocals' = Some(resolveLocals(childCty))
    /\ UNCHANGED <<parentCty, childCty, parentLocals, mergedLocals, parseVars, oldVars>>

MergeLocals ==
    /\ parentLocals # Nil
    /\ childLocals # Nil
    /\ mergedLocals = Nil
    /\ mergedLocals' = Some(mergeResolvedLocals(parentLocals[1], childLocals[1]))
    /\ UNCHANGED <<parentCty, childCty, parentLocals, childLocals, parseVars, oldVars>>

NextLocals == ResolveParent \/ ResolveChild \/ MergeLocals

SpecLocals == InitLocals /\ [][NextLocals]_vars

(***************************************************************************)
(* SpecParse: one top-level call parseLocals(TopPath, opts, nil) over a    *)
(* set of configuration files.                                            *)
(***************************************************************************)
Files == {"M0", "M1", "M2"}
TopPath == "M0"

\* The lists a file of the include graph declares.
FileRequirementLists == {<<>>, <<"a">>, <<"b">>}
FilePathLists == {<<>>, <<"a">>, <<"b\\c">>}

FileValuesOf(k) ==
    IF k \in RequirementKeys THEN FileRequirementLists
    ELSE IF k \in DependencyKeys THEN FilePathLists
    ELSE ValuesOf(k)

\* The locals blocks over a set of keys: none, or one key with one of its values.
FileScopes(keys) ==
    {NilVal} \cup UNION {{Some([x \in {k} |-> v]) : v \in FileValuesOf(k)} : k \in keys}

\* The include blocks of the top-level file, and those of the other files.
TopIncludes == SeqsUpTo(Files, MaxIncludes)
ParentIncludes(path) == {<<>>} \cup {<<f>> : f \in Files \ {path}}

IncludesOf(path) == IF path = TopPath THEN TopIncludes ELSE ParentIncludes(path)

\* The keys the files read so far declare.
DeclaredKeys(files) ==
    UNION {DOMAIN files[f][1].locals[1] :
           f \in {g \in Files : files[g] # Nil /\ files[g][1].locals # NilVal}}

\* What reading path can find: what was found there before or, for a file not
\* read yet, any contents; the files of one run declare one key between them.
Found(path) ==
    IF fs[path] # Nil THEN {fs[path][1]}
    ELSE LET declared == DeclaredKeys(fs)
         IN [locals : FileScopes(IF declared = {} THEN AllKeys ELSE declared),
             includes : IncludesOf(path)]

\* util.ReadFileAsString, parseHcl and config.DecodeBaseBlocks: each can fail.
\* The files do not change during a run: loading a file as an include a second
\* time gives what it gave the first time, and the top-level file, which the
\* top-level call read and parsed, can as an include only fail to decode.
LoadErrors(path, includeFromChild) ==
    IF includeFromChild = Nil THEN {"read", "parse", "decode"}
    ELSE IF included[path] # Nil THEN {included[path][1]} \ {""}
    ELSE IF path = TopPath THEN {"decode"}
    ELSE {"read", "parse", "decode"}

Loadable(path, includeFromChild) ==
    includeFromChild = Nil \/ included[path] = Nil \/ included[path] = Some("")

NewFrame(path, includeFromChild) ==
    [path |-> path,
     includeFromChild |-> includeFromChild,
     pc |-> "read",
     localsAsCty |-> NilVal,
     trackInclude |-> Nil,
     next |-> 1,
     mergedParentLocals |-> EmptyLocals]

\* No file has been read: each file's contents are chosen when it is first read.
InitParse ==
    /\ fs = [f \in Files |-> Nil]
    /\ included = [f \in Files |-> Nil]
    /\ stack = <<NewFrame(TopPath, Nil)>>
    /\ result = Nil
    /\ loads = 0
    /\ returned = <<>>
    /\ merges = <<>>
    /\ LocalsIdle
    /\ OldIdle

Top == stack[Len(stack)]
SetTop(frame) == [stack EXCEPT ![Len(stack)] = frame]

\* DecodeBaseBlocks's trackInclude: nil for a file without include blocks.
TrackInclude(includes) ==
    IF includes = <<>> THEN Nil ELSE Some([CurrentList |-> includes])

\* A guard that forgets includeFromChild.
ShouldRecurseAlways(trackInclude, includeFromChild) == trackInclude # Nil

ShouldRecurse(trackInclude, includeFromChild) ==
    trackInclude # Nil /\ includeFromChild = Nil

\* The includes the loop of parseLocals ranges over.
LoopList(frame) ==
    IF ShouldRecurse(frame.trackInclude, frame.includeFromChild)
    THEN frame.trackInclude[1].CurrentList
    ELSE <<>>

NextInclude(frame) == LoopList(frame)[frame.next]

\* A merge with parent and child exchanged.
MergeParentSwapped(mergedParentLocals, fromParent) ==
    mergeResolvedLocals(fromParent, mergedParentLocals)

MergeParent(mergedParentLocals, fromParent) ==
    mergeResolvedLocals(mergedParentLocals, fromParent)

Merge(parent, child, out) == [parent |-> parent, child |-> child, out |-> out]

\* A return statement of parseLocals. The top-level call hands (locals, err) to
\* its caller; a recursive call hands them to lines 160-161 of the calling
\* frame, which drops the error and merges the locals into mergedParentLocals.
Return(locals, err, merged) ==
    IF Len(stack) = 1
    THEN /\ result' = Some([locals |-> locals, err |-> err])
         /\ stack' = <<>>
         /\ returned' = returned
         /\ merges' = merged
    ELSE LET caller == stack[Len(stack) - 1]
             out == MergeParent(caller.mergedParentLocals, locals)
         IN /\ result' = result
            /\ stack' = Append(SubSeq(stack, 1, Len(stack) - 2),
                               [caller EXCEPT !.mergedParentLocals = out,
                                              !.next = caller.next + 1])
            /\ returned' = Append(returned,
                                  [path |-> Top.path, locals |-> locals, err |-> err])
            /\ merges' = Append(merged, Merge(caller.mergedParentLocals, locals, out))

\* Lines 138-157: read the file, parse it, decode its base blocks; each of the
\* three can fail, and the call then returns ResolvedLocals{} and the error.
ReadAndDecode ==
    /\ stack # <<>>
    /\ Top.pc = "read"
    /\ \/ \E error \in LoadErrors(Top.path, Top.includeFromChild) :
            /\ Return(EmptyLocals, error, <<>>)
            /\ fs' = fs
            /\ included' = IF Top.includeFromChild = Nil THEN included
                           ELSE [included EXCEPT ![Top.path] = Some(error)]
       \/ /\ Loadable(Top.path, Top.includeFromChild)
          /\ \E contents \in Found(Top.path) :
               /\ stack' = SetTop([Top EXCEPT !.pc = "includes",
                                              !.localsAsCty = contents.locals,
                                              !.trackInclude = TrackInclude(contents.includes)])
               /\ fs' = [fs EXCEPT ![Top.path] = Some(contents)]
          /\ included' = IF Top.includeFromChild = Nil THEN included
                         ELSE [included EXCEPT ![Top.path] = Some("")]
          /\ UNCHANGED <<result, returned, merges>>
    /\ loads' = loads + 1
    /\ UNCHANGED <<localsVars, oldVars>>

\* Line 160, the call: parseLocals(includeConfig.Path, opts, &includeConfig).
RecurseOnParent ==
    /\ stack # <<>>
    /\ Top.pc = "includes"
    /\ Top.next <= Len(LoopList(Top))
    /\ stack' = Append(stack, NewFrame(NextInclude(Top), Some(NextInclude(Top))))
    /\ UNCHANGED <<fs, included, result, loads, returned, merges, localsVars, oldVars>>

\* Lines 164-166: resolve the file's own locals, merge them in last, return.
ResolveAndMerge ==
    /\ stack # <<>>
    /\ Top.pc = "includes"
    /\ Top.next > Len(LoopList(Top))
    /\ LET own == resolveLocals(Top.localsAsCty)
           out == mergeResolvedLocals(Top.mergedParentLocals, own)
       IN Return(out, "", <<Merge(Top.mergedParentLocals, own, out)>>)
    /\ UNCHANGED <<fs, included, loads, localsVars, oldVars>>

NextParse ==
    \/ ReadAndDecode
    \/ RecurseOnParent
    \/ ResolveAndMerge

SpecParse == InitParse /\ [][NextParse]_vars

(***************************************************************************)
(* SpecChain: the same call over a given chain of files, M0 including M1   *)
(* and M1 including M2 or nothing.                                         *)
(***************************************************************************)
InitChain ==
    /\ \E k \in AllKeys :
         \E scopes \in [Files -> FileScopes({k})] :
           \E parent \in {<<>>, <<"M2">>} :
             fs = [f \in Files |->
                     Some([locals |-> scopes[f],
                           includes |-> IF f = "M0" THEN <<"M1">>
                                        ELSE IF f = "M1" THEN parent ELSE <<>>])]
    /\ included = [f \in Files |-> Nil]
    /\ stack = <<NewFrame(TopPath, Nil)>>
    /\ result = Nil
    /\ loads = 0
    /\ returned = <<>>
    /\ merges = <<>>
    /\ LocalsIdle
    /\ OldIdle

SpecChain == InitChain /\ [][NextParse]_vars

(***************************************************************************)
(* SpecOld: readOldConfig on the file at outputPath.                       *)
(***************************************************************************)
\* A YAML document of the output file: each top-level key absent or present.
YamlDocs ==
    [version : {Nil, Some(3)},
     automerge : {Nil, Some(FALSE), Some(TRUE)},
     delete_source_branch_on_merge : {Nil, Some(TRUE)},
     parallel_plan : {Nil, Some(FALSE), Some(TRUE)},
     parallel_apply : {Nil, Some(TRUE)},
     projects : {Nil, Some(<<>>), Some(<<[dir |-> "a"]>>)},
     workflows : {Nil, Some("w1"), Some("w2")}]

\* The file at outputPath: missing, present but not readable (permissions, a
\* directory), present with bytes that are no YAML for AtlantisConfig, or
\* present with a document.
OutputFiles ==
    {[state |-> st, doc |-> Nil] : st \in {"missing", "unreadable", "malformed"}}
        \cup {[state |-> "yaml", doc |-> Some(d)] : d \in YamlDocs}

OrElse(option, zero) == IF option = Nil THEN zero ELSE option[1]

AtlantisProject(entry) ==
    [Name |-> "", Branch |-> "", Dir |-> entry.dir, Workspace |-> "",
     ExecutionOrderGroup |-> 0, DeleteSourceBranchOnMergeProject |-> FALSE,
     RepoLocking |-> FALSE,
     Autoplan |-> [WhenModified |-> Nil, Enabled |-> FALSE],
     TerraformVersion |-> "", PlanRequirements |-> Nil, ApplyRequirements |-> Nil,
     ImportRequirements |-> Nil, Workflow |-> ""]

\* ioutil.ReadFile(outputPath)
ReadFile(file) ==
    IF file.state = "missing" THEN [bytes |-> Nil, err |-> "ENOENT"]
    ELSE IF file.state = "unreadable" THEN [bytes |-> Nil, err |-> "EACCES"]
    ELSE [bytes |-> Some(file), err |-> ""]

\* yaml.Unmarshal(bytes, &config): absent keys keep Go's zero values.
Unmarshal(bytes) ==
    IF bytes.state = "malformed" THEN [config |-> Nil, err |-> "yaml"]
    ELSE LET doc == bytes.doc[1] IN
        [config |-> Some(
            [Version |-> OrElse(doc.version, 0),
             AutoMerge |-> OrElse(doc.automerge, FALSE),
             DeleteSourceBranchOnMergeGlobal |->
                 OrElse(doc.delete_source_branch_on_merge, FALSE),
             ParallelPlan |-> OrElse(doc.parallel_plan, FALSE),
             ParallelApply |-> OrElse(doc.parallel_apply, FALSE),
             Projects |->
                 IF doc.projects = Nil THEN Nil
                 ELSE Some([i \in 1..Len(doc.projects[1]) |->
                               AtlantisProject(doc.projects[1][i])]),
             Workflows |-> doc.workflows]),
         err |-> ""]

readOldConfig(file) ==
    LET read == ReadFile(file) IN
    IF read.err # "" THEN [config |-> Nil, err |-> ""]
    ELSE LET parsed == Unmarshal(read.bytes[1]) IN
         IF parsed.err # "" THEN [config |-> Nil, err |-> parsed.err]
         ELSE [config |-> parsed.config, err |-> ""]

InitOld ==
    /\ outputFile \in OutputFiles
    /\ oldConfig = Nil
    /\ LocalsIdle
    /\ ParseIdle

ReadOldConfig ==
    /\ oldConfig = Nil
    /\ oldConfig' = Some(readOldConfig(outputFile))
    /\ UNCHANGED <<outputFile, localsVars, parseVars>>

NextOld == ReadOldConfig

SpecOld == InitOld /\ [][NextOld]_vars

(***************************************************************************)
(* What the specification's sections 3, 4.1 and 4.3 say of the scalar and  *)
(* list fields, stated over the declared keys.                             *)
(***************************************************************************)
Declares(cty, key) == cty # NilVal /\ key \in DOMAIN cty[1]

StringField(key) ==
    IF key = "atlantis_branch" THEN "BranchProject"
    ELSE IF key = "atlantis_workflow" THEN "AtlantisWorkflow"
    ELSE "TerraformVersion"

BoolField(key) ==
    IF key = "atlantis_delete_source_branch_on_merge" THEN "DeleteSourceBranchOnMergeProject"
    ELSE IF key = "atlantis_autoplan" THEN "AutoPlan"
    ELSE IF key = "atlantis_repo_locking" THEN "RepoLocking"
    ELSE IF key = "atlantis_skip" THEN "Skip"
    ELSE "markedProject"

SpecRequirementKeys == {"atlantis_plan_requirements", "atlantis_apply_requirements",
                        "atlantis_import_requirements"}

RequirementField(key) ==
    IF key = "atlantis_plan_requirements" THEN "PlanRequirements"
    ELSE IF key = "atlantis_apply_requirements" THEN "ApplyRequirements"
    ELSE "ImportRequirements"

SpecRecognizedKeys == StringKeys \cup BoolKeys \cup SpecRequirementKeys \cup DependencyKeys

\* C1: every optional scalar field of mergeResolvedLocals(parent, child) is the
\* child's value whenever the child declared the key, the zero value ("" or
\* false) included, and the parent's value only when the child left it undeclared.
C1_ChildScalarWins ==
    mergedLocals # Nil =>
        /\ \A key \in StringKeys :
              mergedLocals[1][StringField(key)] =
                  IF Declares(childCty, key) THEN childCty[1][key]
                  ELSE parentLocals[1][StringField(key)]
        /\ \A key \in BoolKeys :
              mergedLocals[1][BoolField(key)] =
                  IF Declares(childCty, key) THEN Some(childCty[1][key])
                  ELSE parentLocals[1][BoolField(key)]

\* C9: resolveLocals leaves each requirement list unset when its key
\* (atlantis_plan_requirements, atlantis_apply_requirements,
\* atlantis_import_requirements) is absent, makes it an explicit empty list when
\* the key is declared with no element and the declared elements in order
\* otherwise; unrecognized keys change no field and an absent locals block
\* yields the all-unset record.
C9_RequirementLists ==
    childLocals # Nil =>
        /\ \A key \in SpecRequirementKeys :
              childLocals[1][RequirementField(key)] =
                  IF Declares(childCty, key) THEN Some(childCty[1][key]) ELSE Nil
        /\ (childCty = NilVal \/ DOMAIN childCty[1] \cap SpecRecognizedKeys = {})
              => childLocals[1] = EmptyLocals

(***************************************************************************)
(* Properties of parseLocals.                                              *)
(***************************************************************************)
Done == result # Nil
Succeeded == result # Nil /\ result[1].err = ""
Resolved == result[1].locals
TopFile == fs[TopPath][1]
\* What resolveLocals extracts from a file's own locals block.
OwnLocals(path) == resolveLocals(fs[path][1].locals)

ReplaceStringFields == {"BranchProject", "AtlantisWorkflow", "TerraformVersion"}
RequirementFields == {"PlanRequirements", "ApplyRequirements", "ImportRequirements"}
ReplaceOptionFields ==
    {"DeleteSourceBranchOnMergeProject", "AutoPlan", "RepoLocking", "Skip",
     "markedProject"} \cup RequirementFields

RECURSIVE Flatten(_)
Flatten(lists) ==
    IF lists = <<>> THEN <<>> ELSE Head(lists) \o Flatten(Tail(lists))

\* The recursive calls were made for the declared includes, in declared order.
ReturnedInDeclaredOrder ==
    /\ Len(returned) = Len(TopFile.includes)
    /\ \A i \in 1..Len(returned) : returned[i].path = TopFile.includes[i]

\* C2: for the plan, apply and import requirement lists, mergeResolvedLocals
\* returns the child's list whenever the child set it, an explicit empty list
\* included (it replaces a non-empty parent list and stays an explicit empty
\* list), and the parent's list when the child left it unset; a module that
\* declares no plan requirements and includes one parent declaring them (as []
\* in particular) resolves to the parent's list.
C2_RequirementsReplace ==
    /\ \A i \in 1..Len(merges) : \A field \in RequirementFields :
         merges[i].out[field] =
             IF merges[i].child[field] # Nil THEN merges[i].child[field]
             ELSE merges[i].parent[field]
    /\ (/\ Succeeded
        /\ Len(TopFile.includes) = 1
        /\ TopFile.includes[1] # TopPath
        /\ returned[1].err = ""
        /\ Declares(fs[TopFile.includes[1]][1].locals, "atlantis_plan_requirements")
        /\ ~Declares(TopFile.locals, "atlantis_plan_requirements"))
       => Resolved.PlanRequirements =
              Some(fs[TopFile.includes[1]][1].locals[1]["atlantis_plan_requirements"])

\* C2's case: a child's explicit empty list replaces a non-empty parent list.
C2_Witness ==
    /\ Succeeded
    /\ merges[1].parent.PlanRequirements = Some(<<"a">>)
    /\ merges[1].child.PlanRequirements = Some(<<>>)
    /\ Resolved.PlanRequirements = Some(<<>>)

\* C3: the extra dependency paths of mergeResolvedLocals(parent, child) are the
\* parent's entries followed by the child's, order and duplicates kept; folded
\* over the includes, the result lists the entries of each included file, in
\* declaration order, before the module's own.
C3_DependenciesAppend ==
    /\ \A i \in 1..Len(merges) :
         merges[i].out.ExtraAtlantisDependencies =
             merges[i].parent.ExtraAtlantisDependencies
                 \o merges[i].child.ExtraAtlantisDependencies
    /\ Succeeded =>
         /\ ReturnedInDeclaredOrder
         /\ Resolved.ExtraAtlantisDependencies =
                Flatten([i \in 1..Len(returned) |->
                            IF returned[i].err = ""
                            THEN OwnLocals(returned[i].path).ExtraAtlantisDependencies
                            ELSE <<>>])
                    \o OwnLocals(TopPath).ExtraAtlantisDependencies

\* C3's case: an include and the module declare the same path; both are kept.
C3_Witness ==
    /\ Succeeded
    /\ Len(returned) = 2
    /\ returned[1].locals.ExtraAtlantisDependencies = <<"b\\c">>
    /\ returned[2].locals.ExtraAtlantisDependencies = <<"a">>
    /\ OwnLocals(TopPath).ExtraAtlantisDependencies = <<"a">>
    /\ Resolved.ExtraAtlantisDependencies = <<"b\\c", "a", "a">>

\* The last of the recursive calls whose record has the field set (0: none).
LastSetting(field, unset) ==
    LET setting == {i \in 1..Len(returned) : returned[i].locals[field] # unset}
    IN IF setting = {} THEN 0 ELSE CHOOSE i \in setting : \A j \in setting : j <= i

FoldedValue(field, unset) ==
    IF OwnLocals(TopPath)[field] # unset THEN OwnLocals(TopPath)[field]
    ELSE IF LastSetting(field, unset) = 0 THEN unset
    ELSE returned[LastSetting(field, unset)].locals[field]

\* C4: parseLocals folds the includes in declaration order and applies the
\* module's own record last: each replace-semantics field is the module's own
\* value if its record sets it, otherwise the value of the last-declared
\* include whose record sets it, otherwise unset.
C4_FoldInDeclarationOrder ==
    Succeeded =>
        /\ ReturnedInDeclaredOrder
        /\ \A field \in ReplaceStringFields : Resolved[field] = FoldedValue(field, "")
        /\ \A field \in ReplaceOptionFields : Resolved[field] = FoldedValue(field, Nil)

\* C4's case: two includes set the workflow, the module does not; the later wins.
C4_Witness ==
    /\ Succeeded
    /\ TopFile.includes = <<"M2", "M1">>
    /\ returned[1].locals.AtlantisWorkflow = "a"
    /\ returned[2].locals.AtlantisWorkflow = "b"
    /\ OwnLocals(TopPath).AtlantisWorkflow = ""
    /\ Resolved.AtlantisWorkflow = "b"

(***************************************************************************)
(* The include graph, as far as the run has read it.                       *)
(***************************************************************************)
IncludedBy(path) ==
    IF fs[path] = Nil THEN {}
    ELSE {fs[path][1].includes[i] : i \in 1..Len(fs[path][1].includes)}

RECURSIVE ReachableIn(_, _)
ReachableIn(paths, steps) ==
    IF steps = 0 THEN paths
    ELSE ReachableIn(paths \cup UNION {IncludedBy(f) : f \in paths}, steps - 1)

Reachable(paths) == ReachableIn(paths, Cardinality(Files))

\* The include chain from the top-level file revisits a file.
CyclicFromTop ==
    \E f \in Reachable({TopPath}) : f \in Reachable(IncludedBy(f))

\* What is left to do: a variant of the run.
FrameWork(i) ==
    IF stack[i].pc = "read"
    THEN IF stack[i].includeFromChild = Nil THEN 3 * MaxIncludes + 2 ELSE 2
    ELSE 3 * (Len(LoopList(stack[i])) - stack[i].next + 1) + 1
             - (IF i < Len(stack) THEN 3 ELSE 0)

RECURSIVE WorkUpTo(_)
WorkUpTo(i) == IF i = 0 THEN 0 ELSE FrameWork(i) + WorkUpTo(i - 1)

Work == WorkUpTo(Len(stack))

\* C10: a top-level parseLocals terminates on every include graph: a recursive
\* call never recurses, so the call depth is at most 2, at most 1 + (number of
\* includes of the top-level file) files are loaded, and every step takes from
\* the work left.
C10_BoundedRecursion ==
    /\ [](/\ Len(stack) <= 2
          /\ loads <= 1 + (IF fs[TopPath] = Nil THEN 0 ELSE Len(TopFile.includes))
          /\ Work >= 0)
    /\ [][Work' < Work]_vars

\* C10's case: a cyclic graph (the file includes itself, and a parent that
\* includes it back) resolved with three files loaded.
C10_Witness ==
    /\ Succeeded
    /\ TopFile.includes = <<"M0", "M1">>
    /\ fs["M1"] # Nil
    /\ fs["M1"][1].includes = <<"M0">>
    /\ \A i \in 1..Len(returned) : returned[i].err = ""
    /\ loads = 3

\* C6: resolving a module whose include chain is cyclic fails with
\* CyclicIncludeError instead of returning a resolved record.
C6_CycleRejected ==
    (Done /\ fs[TopPath] # Nil /\ CyclicFromTop)
        => result[1].err = "CyclicIncludeError"

\* C7: if a file on the include chain cannot be read, parsed or decoded,
\* parseLocals returns an error to its caller.
C7_ErrorsPropagate ==
    (Done /\ \E i \in 1..Len(returned) : returned[i].err # "")
        => result[1].err # ""

(***************************************************************************)
(* The include chain from the top-level file, following each file's first  *)
(* include until a file has none or the chain would revisit a file.        *)
(***************************************************************************)
RECURSIVE ChainFrom(_, _)
ChainFrom(path, seen) ==
    IF fs[path][1].includes = <<>> \/ fs[path][1].includes[1] \in seen \cup {path}
    THEN <<path>>
    ELSE <<path>> \o ChainFrom(fs[path][1].includes[1], seen \cup {path})

Chain == ChainFrom(TopPath, {})
Farthest == Chain[Len(Chain)]
Nearer == {Chain[i] : i \in 1..(Len(Chain) - 1)}

\* C5: include resolution is transitive: over a chain M0 includes M1 ... includes
\* MN whose files all load, a field set only in MN has MN's value in the record
\* parseLocals returns for M0, and MN's extra dependency paths are in M0's list.
C5_TransitiveIncludes ==
    (Succeeded /\ \A i \in 1..Len(returned) : returned[i].err = "") =>
        /\ \A field \in ReplaceStringFields :
             (/\ OwnLocals(Farthest)[field] # ""
              /\ \A f \in Nearer : OwnLocals(f)[field] = "")
                => Resolved[field] = OwnLocals(Farthest)[field]
        /\ \A field \in ReplaceOptionFields :
             (/\ OwnLocals(Farthest)[field] # Nil
              /\ \A f \in Nearer : OwnLocals(f)[field] = Nil)
                => Resolved[field] = OwnLocals(Farthest)[field]
        /\ \A i \in 1..Len(OwnLocals(Farthest).ExtraAtlantisDependencies) :
             \E j \in 1..Len(Resolved.ExtraAtlantisDependencies) :
                Resolved.ExtraAtlantisDependencies[j] =
                    OwnLocals(Farthest).ExtraAtlantisDependencies[i]

\* C8: readOldConfig returns no config and no error when the file is missing,
\* an error and no config when it does not parse, the parsed config with its
\* workflows block and no error when it parses; a file that exists but cannot
\* be read is not treated as a missing file.
C8_ThreeOutcomes ==
    oldConfig # Nil =>
        /\ outputFile.state = "missing"
             => (oldConfig[1].config = Nil /\ oldConfig[1].err = "")
        /\ outputFile.state = "malformed"
             => (oldConfig[1].config = Nil /\ oldConfig[1].err # "")
        /\ outputFile.state = "yaml"
             => /\ oldConfig[1].err = ""
                /\ oldConfig[1].config # Nil
                /\ oldConfig[1].config[1].Workflows = outputFile.doc[1].workflows
        /\ outputFile.state = "unreadable"
             => ~(oldConfig[1].config = Nil /\ oldConfig[1].err = "")

====
